---- MODULE Spec2Model ----
(***************************************************************************)
(* Model of the ADGM corporate document review core:                       *)
(*   document_processor.py  DocumentProcessor  (classification, sections)  *)
(*   compliance_checker.py  ComplianceChecker  (generate_report)           *)
(*   rag_engine.py          RAGEngine          (knowledge store, query)    *)
(*   app.py                 the "Start Review" batch loop                  *)
(*                                                                         *)
(* Python strings are modelled as sequences of one-character strings, so   *)
(* that lower(), "in", split() and strip() are computed character by       *)
(* character.  Python dicts are modelled as records whose DOMAIN is the    *)
(* set of keys that are present.                                           *)
(***************************************************************************)
EXTENDS Integers, Sequences, FiniteSets, TLC

VARIABLES
    pc,              \* position of the modelled caller
    filename,        \* argument of _identify_document_type
    content,         \* argument of _identify_document_type / _identify_sections
    doc_type,        \* value returned by _identify_document_type
    sections,        \* value returned by _identify_sections
    documents,       \* argument of generate_report
    checklist,       \* argument of generate_report
    report,          \* value returned by generate_report
    files,           \* app.py: uploaded_files
    processed_docs,  \* app.py: st.session_state.processed_docs
    kb,              \* RAGEngine.documents
    rag_out          \* outcome of the last RAGEngine call

vars == <<pc, filename, content, doc_type, sections, documents, checklist,
          report, files, processed_docs, kb, rag_out>>

None == "None"

(***************************************************************************)
(* Generic sequence helpers                                                *)
(***************************************************************************)
Min(S) == CHOOSE x \in S : \A y \in S : x <= y

Max(S) == CHOOSE x \in S : \A y \in S : x >= y

\* All sequences over S of length 0..n
SeqUpTo(S, n) == UNION {[1..k -> S] : k \in 0..n}

RECURSIVE Concat(_)
\* Concatenation of a sequence of sequences
Concat(ss) == IF ss = <<>> THEN <<>> ELSE Head(ss) \o Concat(Tail(ss))

(***************************************************************************)
(* Python str primitives                                                   *)
(***************************************************************************)
UpperChars == <<"A","B","C","D","E","F","G","H","I","J","K","L","M",
                "N","O","P","Q","R","S","T","U","V","W","X","Y","Z">>

LowerChars == <<"a","b","c","d","e","f","g","h","i","j","k","l","m",
                "n","o","p","q","r","s","t","u","v","w","x","y","z">>

Digits == {"0","1","2","3","4","5","6","7","8","9"}

\* characters str.strip() and str.split() treat as whitespace
Whitespace == {" ", "\t", "\r", "\n"}

IsUpperChar(c) == \E i \in 1..26 : UpperChars[i] = c

IsLowerChar(c) == \E i \in 1..26 : LowerChars[i] = c

LowerChar(c) ==
    IF IsUpperChar(c) THEN LowerChars[CHOOSE i \in 1..26 : UpperChars[i] = c]
    ELSE c

\* LATIN CAPITAL LETTER I WITH DOT ABOVE, the one character whose lower() is
\* two characters
CapitalIDot == "U+0130"

\* COMBINING DOT ABOVE
CombiningDot == "U+0307"

\* chr.lower(), as a string
LowerOf(c) == IF c = CapitalIDot THEN <<"i", CombiningDot>> ELSE <<LowerChar(c)>>

\* str.lower()
Lower(s) ==
    IF \A i \in 1..Len(s) : s[i] # CapitalIDot
    THEN [i \in 1..Len(s) |-> LowerChar(s[i])]
    ELSE Concat([i \in 1..Len(s) |-> LowerOf(s[i])])

\* p in s
IsSubstring(p, s) ==
    \E i \in 0..(Len(s) - Len(p)) : SubSeq(s, i + 1, i + Len(p)) = p

(***************************************************************************)
(* difflib.SequenceMatcher and fuzzywuzzy.fuzz.partial_ratio, as called at *)
(* document_processor.py:58 (pure-Python path, no junk heuristic: the      *)
(* autojunk rule only applies to sequences of 200 elements or more).       *)
(* Indices are 0-based and ranges half-open, as in difflib.                *)
(***************************************************************************)
RECURSIVE RunLen(_, _, _, _, _, _)
\* length of the common run of a[i:ahi] and b[j:bhi]
RunLen(a, b, i, j, ahi, bhi) ==
    IF i < ahi /\ j < bhi /\ a[i + 1] = b[j + 1]
    THEN 1 + RunLen(a, b, i + 1, j + 1, ahi, bhi)
    ELSE 0

\* the length of the common run starting at every pair of positions
RunLengths(a, b, alo, ahi, blo, bhi) ==
    [p \in (alo..(ahi - 1)) \X (blo..(bhi - 1)) |->
        RunLen(a, b, p[1], p[2], ahi, bhi)]

LongestRun(len) ==
    IF DOMAIN len = {} THEN 0 ELSE Max({len[p] : p \in DOMAIN len})

\* of the blocks of size k, the one starting earliest in a, and of those the
\* one starting earliest in b
EarliestOfSize(len, k, i) ==
    <<i, Min({p[2] : p \in {q \in DOMAIN len : len[q] = k /\ q[1] = i}}), k>>

PickLongest(alo, blo, len, k) ==
    IF k = 0 THEN <<alo, blo, 0>>
    ELSE EarliestOfSize(len, k,
                        Min({p[1] : p \in {q \in DOMAIN len : len[q] = k}}))

LongestOf(alo, blo, len) == PickLongest(alo, blo, len, LongestRun(len))

\* SequenceMatcher.find_longest_match(alo, ahi, blo, bhi): <<i, j, k>>
FindLongestMatch(a, b, alo, ahi, blo, bhi) ==
    LongestOf(alo, blo, RunLengths(a, b, alo, ahi, blo, bhi))

RECURSIVE MatchingBlocksIn(_, _, _, _, _, _)
RECURSIVE BlocksAround(_, _, _, _, _, _, _)
\* the recursion of SequenceMatcher.get_matching_blocks around the block m,
\* blocks in order
BlocksAround(a, b, alo, ahi, blo, bhi, m) ==
    IF m[3] = 0 THEN <<>>
    ELSE (IF alo < m[1] /\ blo < m[2]
          THEN MatchingBlocksIn(a, b, alo, m[1], blo, m[2]) ELSE <<>>)
         \o <<m>> \o
         (IF m[1] + m[3] < ahi /\ m[2] + m[3] < bhi
          THEN MatchingBlocksIn(a, b, m[1] + m[3], ahi, m[2] + m[3], bhi)
          ELSE <<>>)

MatchingBlocksIn(a, b, alo, ahi, blo, bhi) ==
    BlocksAround(a, b, alo, ahi, blo, bhi,
                 FindLongestMatch(a, b, alo, ahi, blo, bhi))

\* SequenceMatcher.get_matching_blocks, with its closing (la, lb, 0) block
GetMatchingBlocks(a, b) ==
    MatchingBlocksIn(a, b, 0, Len(a), 0, Len(b)) \o << <<Len(a), Len(b), 0>> >>

RECURSIVE SumSizes(_)
SumSizes(blocks) ==
    IF blocks = <<>> THEN 0 ELSE Head(blocks)[3] + SumSizes(Tail(blocks))

\* SequenceMatcher.ratio() as the fraction <<numerator, denominator>>
Ratio(a, b) ==
    IF Len(a) + Len(b) = 0 THEN <<1, 1>>
    ELSE <<2 * SumSizes(GetMatchingBlocks(a, b)), Len(a) + Len(b)>>

\* int(round(x)) for the fraction x = <<n, d>> (round half to even)
Intr(n, d) ==
    IF 2 * (n % d) < d THEN n \div d
    ELSE IF 2 * (n % d) > d THEN (n \div d) + 1
    ELSE IF (n \div d) % 2 = 0 THEN n \div d ELSE (n \div d) + 1

\* max(scores) of a set of fractions
MaxScore(scores) ==
    CHOOSE r \in scores : \A q \in scores : r[1] * q[2] >= q[1] * r[2]

\* longer[long_start:long_start + len(shorter)]
LongSubstr(longer, long_start, n) ==
    SubSeq(longer, long_start + 1, Min({long_start + n, Len(longer)}))

\* the score partial_ratio gives one matching block
BlockScore(shorter, longer, block) ==
    Ratio(shorter,
          LongSubstr(longer,
                     IF block[2] - block[1] > 0 THEN block[2] - block[1] ELSE 0,
                     Len(shorter)))

\* the value partial_ratio returns for the scores of the blocks
ScoreOf(scores) ==
    IF \E r \in scores : 1000 * r[1] > 995 * r[2] THEN 100
    ELSE Intr(100 * MaxScore(scores)[1], MaxScore(scores)[2])

BlockScores(shorter, longer, blocks) ==
    {BlockScore(shorter, longer, blocks[n]) : n \in 1..Len(blocks)}

\* partial_ratio once the shorter string is known
PartialRatioOf(shorter, longer) ==
    ScoreOf(BlockScores(shorter, longer, GetMatchingBlocks(shorter, longer)))

\* fuzz.partial_ratio(s1, s2)
PartialRatio(s1, s2) ==
    IF s1 = s2 THEN 100
    ELSE IF Len(s1) = 0 \/ Len(s2) = 0 THEN 0
    ELSE IF Len(s1) <= Len(s2) THEN PartialRatioOf(s1, s2)
    ELSE PartialRatioOf(s2, s1)

(***************************************************************************)
(* DocumentProcessor                                                       *)
(***************************************************************************)
\* self.document_types, in dict insertion order
document_types == <<
    [label |-> "Memorandum of Association",
     keywords |-> <<
        <<"m","e","m","o","r","a","n","d","u","m">>,
        <<"m","o","a">>,
        <<"m","e","m","o","r","a","n","d","u","m"," ","o","f"," ","a","s","s","o","c","i","a","t","i","o","n">> >>],
    [label |-> "Articles of Association",
     keywords |-> <<
        <<"a","r","t","i","c","l","e","s">>,
        <<"a","o","a">>,
        <<"a","r","t","i","c","l","e","s"," ","o","f"," ","a","s","s","o","c","i","a","t","i","o","n">> >>],
    [label |-> "Register of Members",
     keywords |-> <<
        <<"r","e","g","i","s","t","e","r"," ","o","f"," ","m","e","m","b","e","r","s">>,
        <<"m","e","m","b","e","r","s"," ","r","e","g","i","s","t","e","r">> >>],
    [label |-> "Register of Directors",
     keywords |-> <<
        <<"r","e","g","i","s","t","e","r"," ","o","f"," ","d","i","r","e","c","t","o","r","s">>,
        <<"d","i","r","e","c","t","o","r","s"," ","r","e","g","i","s","t","e","r">> >>],
    [label |-> "UBO Form",
     keywords |-> <<
        <<"u","b","o">>,
        <<"u","l","t","i","m","a","t","e"," ","b","e","n","e","f","i","c","i","a","l"," ","o","w","n","e","r">>,
        <<"b","e","n","e","f","i","c","i","a","l"," ","o","w","n","e","r">> >>],
    [label |-> "Certificate of Incorporation",
     keywords |-> <<
        <<"c","e","r","t","i","f","i","c","a","t","e"," ","o","f"," ","i","n","c","o","r","p","o","r","a","t","i","o","n">>,
        <<"i","n","c","o","r","p","o","r","a","t","i","o","n"," ","c","e","r","t","i","f","i","c","a","t","e">> >>] >>

UnknownDocumentType == "Unknown Document Type"

\* the type generate_report gives a document that has no 'type' key
DefaultDocType == "unknown"

\* the (doc_type, keyword) pairs in the order the two nested loops visit them
KeywordPairs ==
    Concat([t \in 1..Len(document_types) |->
              [k \in 1..Len(document_types[t].keywords) |->
                 [doc_type |-> document_types[t].label,
                  keyword  |-> document_types[t].keywords[k]]]])

\* the threshold of the fuzzy pass
FuzzyThreshold == 80

ExactHit(pair, filename_lower, content_lower) ==
    \/ IsSubstring(pair.keyword, filename_lower)
    \/ IsSubstring(pair.keyword, content_lower)

FuzzyHit(pair, content_lower) ==
    PartialRatio(pair.keyword, content_lower) > FuzzyThreshold

\* the doc_type of the first visited pair among the hits, None without hits
FirstHit(hits) ==
    IF hits = {} THEN None ELSE KeywordPairs[Min(hits)].doc_type

\* first loop of _identify_document_type: the doc_type of the first pair that
\* matches exactly, None when the loop falls through
ExactPass(filename_lower, content_lower) ==
    FirstHit({n \in 1..Len(KeywordPairs) :
                 ExactHit(KeywordPairs[n], filename_lower, content_lower)})

\* second loop of _identify_document_type
FuzzyPass(content_lower) ==
    FirstHit({n \in 1..Len(KeywordPairs) :
                 FuzzyHit(KeywordPairs[n], content_lower)})

\* the three returns of _identify_document_type, in order
FirstReturn(exact, fuzzy) ==
    IF exact # None THEN exact
    ELSE IF fuzzy # None THEN fuzzy
    ELSE UnknownDocumentType

\* faulty variant: the fuzzy pass is run before the exact pass
IdentifyDocumentTypeFuzzyFirst(fname, cont) ==
    FirstReturn(FuzzyPass(Lower(cont)), ExactPass(Lower(fname), Lower(cont)))

\* DocumentProcessor._identify_document_type(filename, content)
IdentifyDocumentType(fname, cont) ==
    FirstReturn(ExactPass(Lower(fname), Lower(cont)), FuzzyPass(Lower(cont)))

(***************************************************************************)
(* Inputs of the classifier: file names, and texts made of a few pieces    *)
(***************************************************************************)
MaxParts == 2

FilenamePool == {
    <<"M","O","A",".","d","o","c","x">>,
    <<"a","o","a",".","d","o","c","x">>,
    <<"x",".","d","o","c","x">>,
    <<>> }

ContentParts == {
    <<"m","e","m">>,
    <<"M","e","m","o","r","a","n","d","u","n">>,
    <<"U","B","O">>,
    <<" ">>,
    <<"z","z">>,
    <<"A","r","t","i","c","l","e","s">> }

ContentPool == {Concat(ps) : ps \in SeqUpTo(ContentParts, MaxParts)}

(***************************************************************************)
(* Values of the variables a specification does not use                    *)
(***************************************************************************)
IdleClassify == filename = <<>> /\ content = <<>> /\ doc_type = None

IdleSections == sections = None

IdleReport == documents = <<>> /\ checklist = None /\ report = None

IdleBatch == files = <<>> /\ processed_docs = <<>>

IdleRag == kb = <<>> /\ rag_out = None

(***************************************************************************)
(* SpecClassify: one call of _identify_document_type                       *)
(***************************************************************************)
InitClassify ==
    /\ pc = "start"
    /\ filename \in FilenamePool
    /\ content \in ContentPool
    /\ doc_type = None
    /\ IdleSections /\ IdleReport /\ IdleBatch /\ IdleRag

Classify ==
    /\ pc = "start"
    /\ doc_type' = IdentifyDocumentType(filename, content)
    /\ pc' = "classified"
    /\ UNCHANGED <<filename, content, sections, documents, checklist, report,
                   files, processed_docs, kb, rag_out>>

NextClassify == Classify

SpecClassify == InitClassify /\ [][NextClassify]_vars

(***************************************************************************)
(* Claims on _identify_document_type (SpecClassify)                        *)
(***************************************************************************)
\* label number t of document_types has a keyword occurring, case-insensitively,
\* in the file name or in the text
HasExactKeyword(t) ==
    \E k \in 1..Len(document_types[t].keywords) :
        \/ IsSubstring(document_types[t].keywords[k], Lower(filename))
        \/ IsSubstring(document_types[t].keywords[k], Lower(content))

\* label number t has a keyword whose partial similarity to the case-folded
\* text exceeds the threshold
HasFuzzyKeyword(t) ==
    \E k \in 1..Len(document_types[t].keywords) :
        PartialRatio(document_types[t].keywords[k], Lower(content)) > 80

LabelIds == 1..Len(document_types)

\* C4: when some keyword occurs exactly in the file name or the text, the
\* classifier returns the first-declared label that has such a keyword, also
\* when an earlier-declared label matches only fuzzily.
C4_ExactFirstDeclaredWins ==
    pc = "classified" =>
        \A t \in LabelIds :
            (HasExactKeyword(t) /\ \A u \in 1..(t - 1) : ~HasExactKeyword(u))
                => doc_type = document_types[t].label

\* C4 witness: a later-declared label matches exactly, an earlier-declared one
\* only fuzzily, and the later one was returned
C4_Witness ==
    /\ pc = "classified"
    /\ \E t \in LabelIds :
          /\ HasExactKeyword(t)
          /\ \A u \in 1..(t - 1) : ~HasExactKeyword(u)
          /\ \E u \in 1..(t - 1) : HasFuzzyKeyword(u)
          /\ doc_type = document_types[t].label

\* C9: the classifier returns the Unknown label exactly when neither pass
\* matches, and that label is the one generate_report uses for a document
\* without a type.
C9_UnknownIffNoMatch ==
    pc = "classified" =>
        ((doc_type = DefaultDocType)
            <=> (\A t \in LabelIds : ~HasExactKeyword(t) /\ ~HasFuzzyKeyword(t)))

(***************************************************************************)
(* DocumentProcessor._identify_sections                                    *)
(***************************************************************************)
RECURSIVE SplitLines(_)
\* content.split('\n')
SplitLines(s) ==
    LET nl == {i \in 1..Len(s) : s[i] = "\n"}
    IN  IF nl = {} THEN <<s>>
        ELSE <<SubSeq(s, 1, Min(nl) - 1)>>
             \o SplitLines(SubSeq(s, Min(nl) + 1, Len(s)))

\* line.strip()
Strip(s) ==
    LET keep == {i \in 1..Len(s) : s[i] \notin Whitespace}
    IN  IF keep = {} THEN <<>> ELSE SubSeq(s, Min(keep), Max(keep))

\* line.isupper(): at least one cased character and no lower-case one
IsUpper(s) ==
    /\ \E i \in 1..Len(s) : IsUpperChar(s[i]) \/ s[i] = CapitalIDot
    /\ \A i \in 1..Len(s) : ~IsLowerChar(s[i])

\* line.endswith(':')
EndsWithColon(s) == Len(s) > 0 /\ s[Len(s)] = ":"

\* re.match(r'^\d+\.', line)
MatchesNumbering(s) ==
    \E n \in 1..(Len(s) - 1) :
        /\ \A i \in 1..n : s[i] \in Digits
        /\ s[n + 1] = "."

\* the condition of the loop body, on the stripped line
IsHeading(line) ==
    /\ line # <<>>
    /\ (IsUpper(line) \/ EndsWithColon(line) \/ MatchesNumbering(line))

\* the cap of sections[:10]
MaxSections == 10

\* faulty variant: the last 10 candidates are kept instead of the first 10
IdentifySectionsLastTen(cont) ==
    LET lines    == SplitLines(cont)
        stripped == [i \in 1..Len(lines) |-> Strip(lines[i])]
        found    == SelectSeq(stripped, IsHeading)
    IN  SubSeq(found, Max({1, Len(found) - MaxSections + 1}), Len(found))

\* DocumentProcessor._identify_sections(content)
IdentifySections(cont) ==
    LET lines    == SplitLines(cont)
        stripped == [i \in 1..Len(lines) |-> Strip(lines[i])]
        found    == SelectSeq(stripped, IsHeading)
    IN  SubSeq(found, 1, Min({MaxSections, Len(found)}))

(***************************************************************************)
(* SpecSections: one call of _identify_sections on a text made of a few    *)
(* free lines followed by a two-line block repeated MaxRepeat times        *)
(***************************************************************************)
MaxPrefixLines == 2

MaxRepeat == 6

LinePool == {
    <<"I","N","T","R","O">>,
    <<" ","S","c","o","p","e",":"," ">>,
    <<"1","."," ","N","a","m","e">>,
    <<"p","l","a","i","n">>,
    <<>>,
    <<"1","2">>,
    <<"P","a","r","t"," ","A">> }

RECURSIVE JoinLines(_)
\* '\n'.join(lines)
JoinLines(ls) ==
    IF ls = <<>> THEN <<>>
    ELSE IF Len(ls) = 1 THEN ls[1]
    ELSE ls[1] \o <<"\n">> \o JoinLines(Tail(ls))

RECURSIVE Repeat(_, _)
Repeat(block, n) == IF n = 0 THEN <<>> ELSE block \o Repeat(block, n - 1)

TextPool ==
    {JoinLines(p) : p \in SeqUpTo(LinePool, MaxPrefixLines) \ {<<>>}}
    \cup {<<>>}
    \cup {JoinLines(p \o Repeat(b, MaxRepeat)) :
            p \in SeqUpTo(LinePool, MaxPrefixLines),
            b \in [1..2 -> LinePool]}

InitSections ==
    /\ pc = "start"
    /\ content \in TextPool
    /\ filename = <<>> /\ doc_type = None
    /\ sections = None
    /\ IdleReport /\ IdleBatch /\ IdleRag

Sections ==
    /\ pc = "start"
    /\ sections' = IdentifySections(content)
    /\ pc' = "sectioned"
    /\ UNCHANGED <<filename, content, doc_type, documents, checklist, report,
                   files, processed_docs, kb, rag_out>>

NextSections == Sections

SpecSections == InitSections /\ [][NextSections]_vars

\* content.split('\n') with every line stripped
StrippedLines(cont) ==
    LET lines == SplitLines(cont)
    IN  [i \in 1..Len(lines) |-> Strip(lines[i])]

\* the positions of the heading candidates among the stripped lines
HeadingLines(stripped) == {i \in 1..Len(stripped) : IsHeading(stripped[i])}

\* the position of each heading candidate among the heading candidates
HeadingRank(heads) == [i \in heads |-> Cardinality({j \in heads : j <= i})]

\* C10: the result has at most 10 entries and is exactly the first 10 (or
\* fewer) heading candidates, trimmed, in original line order, nothing
\* reordered, deduplicated or skipped.
C10_FirstTenHeadingsInOrder ==
    pc = "sectioned" =>
        LET stripped == StrippedLines(content)
            heads    == HeadingLines(stripped)
            rank     == HeadingRank(heads)
        IN  /\ Len(sections) <= 10
            /\ Len(sections) = Min({10, Cardinality(heads)})
            /\ \A i \in heads :
                  rank[i] <= 10 => sections[rank[i]] = stripped[i]

\* C10 witness: a text with more than 10 candidates, two of the first ten
\* equal, and a non-candidate line before the tenth one
C10_Witness ==
    /\ pc = "sectioned"
    /\ LET stripped == StrippedLines(content)
           heads    == HeadingLines(stripped)
           rank     == HeadingRank(heads)
       IN  /\ Cardinality(heads) > 10
           /\ Len(sections) = 10
           /\ \E n, m \in 1..10 : n # m /\ sections[n] = sections[m]
           /\ \E i \in heads :
                 rank[i] = 10 /\ \E j \in 1..i : j \notin heads

(***************************************************************************)
(* ComplianceChecker.generate_report                                       *)
(***************************************************************************)
\* dict.get(key, default)
Get(d, key, default) == IF key \in DOMAIN d THEN d[key] ELSE default

\* the elements of a sequence
Range(s) == {s[i] : i \in 1..Len(s)}

\* the 'document' of a finding whose document has no 'filename'
DefaultFilename == <<"U","n","k","n","o","w","n">>

\* the 'reference' of a finding whose requirements give none
DefaultReference == "ADGM regulations"

\* the dict appended at lines 35-42
Finding(doc, section, requirements) ==
    [document    |-> Get(doc, "filename", DefaultFilename),
     section     |-> section,
     description |-> <<"Missing required section: ", section>>,
     severity    |-> "high",
     suggestion  |-> <<"Add the ", section, " section as per ADGM requirements">>,
     reference   |-> Get(requirements, "reference", DefaultReference)]

RECURSIVE SectionIssuesCaseSensitive(_, _, _)
\* faulty variant: the section name is searched without case folding
SectionIssuesCaseSensitive(doc, required_sections, n) ==
    IF n > Len(required_sections) THEN <<>>
    ELSE (IF ~IsSubstring(required_sections[n][1], Get(doc, "content", <<>>))
          THEN <<Finding(doc, required_sections[n][1], required_sections[n][2])>>
          ELSE <<>>)
         \o SectionIssuesCaseSensitive(doc, required_sections, n + 1)

RECURSIVE SectionIssues(_, _, _)
\* the inner loop (lines 33-42) over required_sections.items(), from entry n
SectionIssues(doc, required_sections, n) ==
    IF n > Len(required_sections) THEN <<>>
    ELSE LET section      == required_sections[n][1]
             requirements == required_sections[n][2]
             cont         == Lower(Get(doc, "content", <<>>))
         IN  (IF ~IsSubstring(Lower(section), cont)
              THEN <<Finding(doc, section, requirements)>> ELSE <<>>)
             \o SectionIssues(doc, required_sections, n + 1)

RECURSIVE DocumentIssues(_, _, _)
\* the outer loop (lines 28-42) over documents, from document n
DocumentIssues(docs, chk, n) ==
    IF n > Len(docs) THEN <<>>
    ELSE SectionIssues(docs[n], Get(chk, "required_sections", <<>>), 1)
         \o DocumentIssues(docs, chk, n + 1)

\* faulty variant: the score is not clamped at 0
ComplianceScoreUnclamped(n_missing, n_issues) ==
    100 - (n_missing * 20) - (n_issues * 10)

\* line 51
ComplianceScore(n_missing, n_issues) ==
    Max({0, 100 - (n_missing * 20) - (n_issues * 10)})

\* line 23
MissingDocuments(docs, required_docs) ==
    LET uploaded_doc_types ==
            [i \in 1..Len(docs) |-> Get(docs[i], "type", DefaultDocType)]
        NotUploaded(d) == d \notin Range(uploaded_doc_types)
    IN  SelectSeq(required_docs, NotUploaded)

\* ComplianceChecker.generate_report(documents, process_type, checklist)
GenerateReport(docs, process_type, chk) ==
    LET required_docs     == Get(chk, "required_documents", <<>>)
        missing_documents == MissingDocuments(docs, required_docs)
        issues            == DocumentIssues(docs, chk, 1)
    IN  [total_documents    |-> Len(docs),
         required_documents |-> Len(required_docs),
         missing_documents  |-> missing_documents,
         uploaded_documents |-> docs,
         issues             |-> issues,
         process_type       |-> process_type,
         compliance_score   |->
             ComplianceScore(Len(missing_documents), Len(issues))]

(***************************************************************************)
(* SpecReport: one call of generate_report                                 *)
(***************************************************************************)
MaxDocs == 2

MoA == "Memorandum of Association"

AoA == "Articles of Association"

\* document dicts: classified ones, an extraction-error record, one with
\* neither 'filename' nor 'type'
DocPool == {
    [filename |-> <<"M","O","A",".","d","o","c","x">>, type |-> MoA,
     content |-> <<"S","H","A","R","E","H","O","L","D","E","R","S",":"," ","n","a","m","e">>],
    [filename |-> <<"a","o","a",".","d","o","c","x">>, type |-> AoA,
     content |-> <<"o","b","j","e","c","t","s">>],
    [filename |-> <<"x",".","d","o","c","x">>, type |-> UnknownDocumentType,
     content |-> <<>>],
    [filename |-> <<"x",".","d","o","c","x">>, error |-> "Package not found"],
    [content |-> <<"N","a","m","e"," ","o","f"," ","s","h","a","r","e","h","o","l","d","e","r","s">>] }

SecShareholders ==
    <<<<"S","h","a","r","e","h","o","l","d","e","r","s">>, [reference |-> "ADGM Co Reg Regs, s.12"]>>

SecName == <<<<"N","A","M","E">>, [reference |-> "ADGM Co Reg Regs, s.3"]>>

SecObjects == <<<<"O","b","j","e","c","t","s">>, [mandatory |-> TRUE]>>

SecEmpty == <<<<>>, [mandatory |-> FALSE]>>

\* required_sections dicts, as their items() in insertion order
RequiredSectionsPool == {
    <<>>,
    <<SecShareholders>>,
    <<SecShareholders, SecObjects>>,
    <<SecObjects, SecName, SecShareholders>>,
    <<SecEmpty, SecName>> }

RequiredDocumentsPool == {
    <<>>,
    <<MoA, AoA>>,
    <<AoA, MoA>>,
    <<AoA, AoA>>,
    <<DefaultDocType, AoA>>,
    <<UnknownDocumentType>>,
    <<"Memorandum of Association", "Articles of Association",
      "Register of Members", "Register of Directors", "UBO Form",
      "Certificate of Incorporation">> }

ChecklistPool ==
    {[required_documents |-> rd, required_sections |-> rs] :
        rd \in RequiredDocumentsPool, rs \in RequiredSectionsPool}
    \cup {[allowed_document_types |-> <<MoA, AoA>>]}

ProcessType == "Company Incorporation"

InitReport ==
    /\ pc = "start"
    /\ documents \in SeqUpTo(DocPool, MaxDocs)
    /\ checklist \in ChecklistPool
    /\ report = None
    /\ IdleClassify /\ IdleSections /\ IdleBatch /\ IdleRag

Report ==
    /\ pc = "start"
    /\ report' = GenerateReport(documents, ProcessType, checklist)
    /\ pc' = "reported"
    /\ UNCHANGED <<filename, content, doc_type, sections, documents, checklist,
                   files, processed_docs, kb, rag_out>>

NextReport == Report

SpecReport == InitReport /\ [][NextReport]_vars

(***************************************************************************)
(* Claims on generate_report (SpecReport)                                  *)
(***************************************************************************)
\* the labels that are the type of some input document
TypesPresent ==
    {documents[i].type :
        i \in {j \in 1..Len(documents) : "type" \in DOMAIN documents[j]}}

\* C1: missing_documents is exactly the sequence of entries of
\* required_documents whose label is not the type of any input document, in
\* checklist order; a document without a type satisfies no required label.
C1_MissingDocuments ==
    pc = "reported" =>
        LET required  == Get(checklist, "required_documents", <<>>)
            Absent(l) == l \notin TypesPresent
        IN  report.missing_documents = SelectSeq(required, Absent)

\* C2: issues holds exactly one finding for each pair (document, required
\* section) whose case-folded section name is not a substring of the
\* document's case-folded text, document order outer, section order inner;
\* each is 'high', names the document's filename and the section, and carries
\* requirements.reference when present.
C2_IssuesAreMissingSections ==
    pc = "reported" =>
        LET secs == Get(checklist, "required_sections", <<>>)
            Lacks(d, s) ==
                ~IsSubstring(Lower(secs[s][1]),
                             Lower(Get(documents[d], "content", <<>>)))
            pairs == {p \in (1..Len(documents)) \X (1..Len(secs)) :
                         Lacks(p[1], p[2])}
            Before(q, p) == q[1] < p[1] \/ (q[1] = p[1] /\ q[2] <= p[2])
            rank == [p \in pairs |-> Cardinality({q \in pairs : Before(q, p)})]
        IN  /\ Len(report.issues) = Cardinality(pairs)
            /\ \A p \in pairs :
                  LET f == report.issues[rank[p]]
                  IN  /\ f.severity = "high"
                      /\ f.section = secs[p[2]][1]
                      /\ "filename" \in DOMAIN documents[p[1]]
                            => f.document = documents[p[1]].filename
                      /\ "reference" \in DOMAIN secs[p[2]][2]
                            => f.reference = secs[p[2]][2].reference

\* C2 witness: two documents and several sections; one section is found in a
\* document only thanks to case folding, and findings of two documents follow
\* each other in document order
C2_Witness ==
    /\ pc = "reported"
    /\ Len(documents) = 2
    /\ LET secs == Get(checklist, "required_sections", <<>>)
       IN  /\ Len(secs) >= 2
           /\ \E d \in 1..2, s \in 1..Len(secs) :
                 LET text == Get(documents[d], "content", <<>>)
                 IN  /\ IsSubstring(Lower(secs[s][1]), Lower(text))
                     /\ ~IsSubstring(secs[s][1], text)
    /\ \E n \in 1..(Len(report.issues) - 1) :
          report.issues[n].document # report.issues[n + 1].document

\* C3: compliance_score = max(0, 100 - 20*|missing_documents| - 10*|issues|)
\* of the same report, an integer in [0, 100], and no larger count of missing
\* documents or issues gives a higher score.
C3_ComplianceScore ==
    pc = "reported" =>
        LET m   == Len(report.missing_documents)
            i   == Len(report.issues)
            raw == 100 - 20 * m - 10 * i
        IN  /\ report.compliance_score = (IF raw < 0 THEN 0 ELSE raw)
            /\ report.compliance_score \in 0..100
            /\ \A dm, di \in 0..2 :
                  ComplianceScore(m + dm, i + di) <= report.compliance_score

\* C3 witness: the penalties exceed 100 and the score is clamped to 0
C3_Witness ==
    /\ pc = "reported"
    /\ 20 * Len(report.missing_documents) + 10 * Len(report.issues) > 100
    /\ report.compliance_score = 0

(***************************************************************************)
(* ComplianceChecker.check_document                                        *)
(***************************************************************************)
\* the minimum_content_length of a checklist that gives none (line 72)
DefaultMinLength == 100

\* the dict appended at lines 61-68
TypeFinding(document, type, allowed) ==
    [document    |-> Get(document, "filename", DefaultFilename),
     section     |-> "Document Type",
     description |-> <<"Invalid document type: ", type>>,
     severity    |-> "high",
     suggestion  |-> <<"Upload a valid document type: ", allowed>>,
     reference   |-> "ADGM document requirements"]

\* the dict appended at lines 74-81
ContentFinding(document, length, min_length) ==
    [document    |-> Get(document, "filename", DefaultFilename),
     section     |-> "Content",
     description |-> <<"Document content too short (", length, " characters)">>,
     severity    |-> "medium",
     suggestion  |-> <<"Ensure document has at least ", min_length, " characters">>,
     reference   |-> "ADGM content requirements"]

\* ComplianceChecker.check_document(document, checklist)
CheckDocument(document, chk) ==
    LET type       == Get(document, "type", DefaultDocType)
        allowed    == Get(chk, "allowed_document_types", <<>>)
        cont       == Lower(Get(document, "content", <<>>))
        min_length == Get(chk, "minimum_content_length", DefaultMinLength)
    IN  (IF type \notin Range(allowed)
         THEN <<TypeFinding(document, type, allowed)>> ELSE <<>>)
        \o (IF Len(cont) < min_length
            THEN <<ContentFinding(document, Len(cont), min_length)>> ELSE <<>>)

(***************************************************************************)
(* SpecCheck: one call of check_document                                   *)
(***************************************************************************)
MaxContentLen == 2

MaxMinLength == 3

\* the characters short contents are made of
ContentChars == {"A", "b", CapitalIDot}

\* texts: short ones, and ones around the default minimum length
CheckContentPool ==
    SeqUpTo(ContentChars, MaxContentLen)
    \cup {Repeat(<<"a">>, DefaultMinLength - 1),
          Repeat(<<"a">>, DefaultMinLength),
          Repeat(<<CapitalIDot>>, DefaultMinLength \div 2)}

\* the dict with the keys at which opt gives a value ({} stands for no value)
Present(opt) ==
    [k \in {j \in DOMAIN opt : opt[j] # {}} |-> CHOOSE v \in opt[k] : TRUE]

\* document dicts, each key present or absent
CheckDocPool ==
    {Present([filename |-> f, type |-> t, content |-> c]) :
        f \in {{}, {<<"x",".","d","o","c","x">>}},
        t \in {{}, {MoA}, {AoA}, {UnknownDocumentType}},
        c \in {{}} \cup {{x} : x \in CheckContentPool}}

AllowedPool ==
    {{}, {<<>>}, {<<MoA, AoA>>}, {<<AoA>>}, {<<DefaultDocType>>}}

MinLengthPool ==
    {{}, {DefaultMinLength}} \cup {{n} : n \in 0..MaxMinLength}

CheckChecklistPool ==
    {Present([allowed_document_types |-> a, minimum_content_length |-> m]) :
        a \in AllowedPool, m \in MinLengthPool}

InitCheck ==
    /\ pc = "start"
    /\ documents \in {<<d>> : d \in CheckDocPool}
    /\ checklist \in CheckChecklistPool
    /\ report = None
    /\ IdleClassify /\ IdleSections /\ IdleBatch /\ IdleRag

\* issues = checker.check_document(document, checklist)
Check ==
    /\ pc = "start"
    /\ report' = CheckDocument(documents[1], checklist)
    /\ pc' = "checked"
    /\ UNCHANGED <<filename, content, doc_type, sections, documents, checklist,
                   files, processed_docs, kb, rag_out>>

NextCheck == Check

SpecCheck == InitCheck /\ [][NextCheck]_vars

(***************************************************************************)
(* Claims on check_document (SpecCheck)                                    *)
(***************************************************************************)
\* C11: check_document returns at most two findings: a 'high' finding on the
\* document type iff the document's type is not among the checklist's
\* allowed_document_types, and a 'medium' finding on the content iff the
\* content length is less than the checklist's minimum_content_length; the
\* type finding comes first, and a document passing both checks gives the
\* empty sequence.
C11_CheckDocument ==
    pc = "checked" =>
        LET document == documents[1]
            HasHigh   == \E i \in 1..Len(report) : report[i].severity = "high"
            HasMedium == \E i \in 1..Len(report) : report[i].severity = "medium"
        IN  /\ Len(report) <= 2
            /\ \A i \in 1..Len(report) :
                  report[i].severity \in {"high", "medium"}
            /\ Len(report) = 2 =>
                  /\ report[1].severity = "high"
                  /\ report[2].severity = "medium"
            /\ ("type" \in DOMAIN document
                    /\ "allowed_document_types" \in DOMAIN checklist) =>
                  (HasHigh <=>
                      document.type \notin Range(checklist.allowed_document_types))
            /\ ("content" \in DOMAIN document
                    /\ "minimum_content_length" \in DOMAIN checklist) =>
                  (HasMedium <=>
                      Len(document.content) < checklist.minimum_content_length)

(***************************************************************************)
(* DocumentProcessor.process_document and the review loop of app.py        *)
(***************************************************************************)
\* the leading whitespace removed
LStrip(s) ==
    LET keep == {i \in 1..Len(s) : s[i] \notin Whitespace}
    IN  IF keep = {} THEN <<>> ELSE SubSeq(s, Min(keep), Len(s))

RECURSIVE SplitWords(_)
\* str.split(): the maximal runs of non-whitespace characters
SplitWords(s) ==
    LET t  == LStrip(s)
        ws == {i \in 1..Len(t) : t[i] \in Whitespace}
        e  == IF ws = {} THEN Len(t) ELSE Min(ws) - 1
    IN  IF t = <<>> THEN <<>>
        ELSE <<SubSeq(t, 1, e)>> \o SplitWords(SubSeq(t, e + 1, Len(t)))

\* _extract_text(doc)
ExtractText(doc) == JoinLines(doc.paragraphs)

\* _extract_tables(doc)
ExtractTables(doc) ==
    [t \in 1..Len(doc.tables) |->
        [r \in 1..Len(doc.tables[t]) |->
            [c \in 1..Len(doc.tables[t][r]) |-> Strip(doc.tables[t][r][c])]]]

\* str(e) of the exception docx.Document raises on a file it cannot open
ExtractionError == "Package not found"

HasText(p) == Strip(p) # <<>>

\* the dict returned by the try block of process_document
ExtractedRecord(file, full_text) ==
    [filename   |-> file.name,
     type       |-> IdentifyDocumentType(file.name, full_text),
     content    |-> full_text,
     paragraphs |-> SelectSeq(file.paragraphs, HasText),
     tables     |-> ExtractTables(file),
     word_count |-> Len(SplitWords(full_text)),
     metadata   |->
         [core_properties |-> file.core_properties,
          sections        |-> IdentifySections(full_text)]]

\* faulty variant: a failed file is still given a type, from its name
ProcessDocumentTypingFailures(file) ==
    IF ~file.readable
    THEN [error |-> ExtractionError, filename |-> file.name,
          type |-> IdentifyDocumentType(file.name, <<>>)]
    ELSE ExtractedRecord(file, ExtractText(file))

\* DocumentProcessor.process_document(file); a file docx cannot open makes
\* docx.Document(file) raise, which the except clause turns into a record
ProcessDocument(file) ==
    IF ~file.readable
    THEN [error |-> ExtractionError, filename |-> file.name]
    ELSE ExtractedRecord(file, ExtractText(file))

(***************************************************************************)
(* SpecBatch: the "Start Review" handler of app.py (lines 66-82): every    *)
(* uploaded file is processed in turn, then the report is generated        *)
(***************************************************************************)
MaxFiles == 2

NoProperties == [title |-> <<>>, author |-> <<>>, created |-> <<>>, modified |-> <<>>]

\* uploaded files: readable documents and files docx cannot open
FilePool == {
    [name |-> <<"M","O","A",".","d","o","c","x">>, readable |-> TRUE,
     paragraphs |-> <<<<"O","B","J","E","C","T","S",":">>, <<" ","t","h","e"," ","s","h","a","r","e","h","o","l","d","e","r","s"," ">>>>,
     tables |-> <<>>, core_properties |-> NoProperties],
    [name |-> <<"x",".","d","o","c","x">>, readable |-> TRUE,
     paragraphs |-> <<<<"m","e","m">>>>,
     tables |-> << << <<<<" ","a"," ">>>> >> >>, core_properties |-> NoProperties],
    [name |-> <<"a","o","a",".","d","o","c","x">>, readable |-> FALSE],
    [name |-> <<"x",".","d","o","c","x">>, readable |-> FALSE] }

BatchChecklistPool ==
    {[required_documents |-> rd, required_sections |-> rs] :
        rd \in {<<MoA, AoA>>, <<DefaultDocType>>},
        rs \in {<<SecShareholders>>, <<SecObjects, SecName>>}}

InitBatch ==
    /\ pc = "idle"
    /\ files \in SeqUpTo(FilePool, MaxFiles)
    /\ checklist \in BatchChecklistPool
    /\ processed_docs = <<>>
    /\ report = None
    /\ documents = <<>>
    /\ IdleClassify /\ IdleSections /\ IdleRag

\* lines 66-70: the button is pressed with files uploaded
StartReview ==
    /\ pc = "idle"
    /\ files # <<>>
    /\ processed_docs' = <<>>
    /\ pc' = "processing"
    /\ UNCHANGED <<filename, content, doc_type, sections, documents, checklist,
                   report, files, kb, rag_out>>

\* lines 71-73: one iteration of the loop over uploaded_files
ProcessNext ==
    /\ pc = "processing"
    /\ Len(processed_docs) < Len(files)
    /\ processed_docs' =
          Append(processed_docs, ProcessDocument(files[Len(processed_docs) + 1]))
    /\ UNCHANGED <<pc, filename, content, doc_type, sections, documents,
                   checklist, report, files, kb, rag_out>>

\* lines 76-80: the report over the processed documents
FinishReview ==
    /\ pc = "processing"
    /\ Len(processed_docs) = Len(files)
    /\ report' = GenerateReport(processed_docs, ProcessType, checklist)
    /\ pc' = "reviewed"
    /\ UNCHANGED <<filename, content, doc_type, sections, documents, checklist,
                   files, processed_docs, kb, rag_out>>

NextBatch == StartReview \/ ProcessNext \/ FinishReview

SpecBatch == InitBatch /\ [][NextBatch]_vars

\* the findings of a list of issues that name the given file
IssuesOf(issues, name) == SelectSeq(issues, LAMBDA f : f.document = name)

\* the processed documents that are not extraction-error records
Extracted == SelectSeq(processed_docs, LAMBDA d : "error" \notin DOMAIN d)

JStr(s) == [t |-> "str", v |-> s]

JNum(n) == [t |-> "num", n |-> n]

JArr(a) == [t |-> "arr", a |-> a]

JObj(items) == [t |-> "obj", items |-> items]

\* isinstance(x, dict), isinstance(x, list), isinstance(x, str)
IsDict(x) == x.t = "obj"

IsList(x) == x.t = "arr"

IsStr(x) == x.t = "str"

\* d.get(key, default) on a dict
GetJ(d, key, default) ==
    IF \E i \in 1..Len(d.items) : d.items[i][1] = key
    THEN d.items[CHOOSE i \in 1..Len(d.items) : d.items[i][1] = key][2]
    ELSE default

EmptyDict == JObj(<<>>)

RECURSIVE LoadItems(_, _)
\* lines 31-35: the loop over data.items(), extending the documents held
LoadItems(docs, items) ==
    IF items = <<>> THEN docs
    ELSE LoadItems(IF IsList(Head(items)[2])
                   THEN docs \o Head(items)[2].a
                   ELSE Append(docs, Head(items)[2]),
                   Tail(items))

\* RAGEngine.load_knowledge_base(filename): the documents held afterwards.
\* open() raising on an unreadable file and json.load raising on a file that
\* does not parse are both caught by the except clause.
LoadKnowledgeBase(docs, file) ==
    IF ~file.readable THEN <<>>
    ELSE IF file.is_json
    THEN IF ~file.parses THEN <<>>
         ELSE IF IsDict(file.data) THEN LoadItems(docs, file.data.items)
         ELSE IF IsList(file.data) THEN file.data.a
         ELSE <<file.data>>
    ELSE <<JObj(<< <<"content", JStr(file.text)>>,
                   <<"source", JStr(file.name)>> >>)>>

\* RAGEngine.add_document(content, metadata): the document appended
NewDocument(cont, metadata) ==
    JObj(<< <<"content", JStr(cont)>>, <<"metadata", metadata>> >>)

\* lines 65-67: the number of query words found in the content
MatchCount(query_words, content_lower) ==
    Cardinality({i \in 1..Len(query_words) :
                    IsSubstring(query_words[i], content_lower)})

\* lines 58-74: the results one document contributes; the score is the
\* fraction <<score, len(query_words)>>
ResultsOf(doc, query_words) ==
    IF ~IsStr(GetJ(doc, "content", JStr(<<>>))) THEN <<>>
    ELSE IF MatchCount(query_words,
                       Lower(GetJ(doc, "content", JStr(<<>>)).v)) > 0
    THEN <<[content  |-> GetJ(doc, "content", JStr(<<>>)).v,
            metadata |-> GetJ(doc, "metadata", EmptyDict),
            score    |-> <<MatchCount(query_words,
                              Lower(GetJ(doc, "content", JStr(<<>>)).v)),
                           Len(query_words)>>]>>
    ELSE <<>>

RECURSIVE Matches(_, _)
\* the loop of lines 57-74 over self.documents
Matches(docs, query_words) ==
    IF docs = <<>> THEN <<>>
    ELSE ResultsOf(Head(docs), query_words) \o Matches(Tail(docs), query_words)

\* x['score'] of a is less than that of b
ScoreLess(a, b) == a.score[1] * b.score[2] < b.score[1] * a.score[2]

RECURSIVE InsertDescBeforeEqual(_, _)
\* faulty variant: r is placed in front of the entries of equal score
InsertDescBeforeEqual(r, sorted) ==
    IF sorted = <<>> THEN <<r>>
    ELSE IF ~ScoreLess(r, Head(sorted)) THEN <<r>> \o sorted
    ELSE <<Head(sorted)>> \o InsertDescBeforeEqual(r, Tail(sorted))

RECURSIVE InsertDesc(_, _)
\* r placed in a list sorted by descending score, behind the entries whose
\* score is not less than its own
InsertDesc(r, sorted) ==
    IF sorted = <<>> THEN <<r>>
    ELSE IF ScoreLess(Head(sorted), r) THEN <<r>> \o sorted
    ELSE <<Head(sorted)>> \o InsertDesc(r, Tail(sorted))

RECURSIVE SortByScore(_)
\* results.sort(key=lambda x: x['score'], reverse=True): a stable sort, equal
\* scores keep their order
SortByScore(results) ==
    IF results = <<>> THEN <<>>
    ELSE InsertDesc(results[Len(results)],
                    SortByScore(SubSeq(results, 1, Len(results) - 1)))

\* results[:n]
Slice(results, n) ==
    IF n >= 0 THEN SubSeq(results, 1, Min({n, Len(results)}))
    ELSE SubSeq(results, 1, Max({0, Len(results) + n}))

\* doc.get raises AttributeError on a document that is no dict
QueryRaises(docs) == \E i \in 1..Len(docs) : ~IsDict(docs[i])

\* RAGEngine.query(query, n_results), when it does not raise
Query(docs, query, n_results) ==
    Slice(SortByScore(Matches(docs, SplitWords(Lower(query)))), n_results)

\* "\n\n".join(context_parts)
RECURSIVE JoinParts(_)
JoinParts(parts) ==
    IF parts = <<>> THEN <<>>
    ELSE IF Len(parts) = 1 THEN parts[1]
    ELSE parts[1] \o <<"\n", "\n">> \o JoinParts(Tail(parts))

\* ' '.join(words)
RECURSIVE JoinWords(_)
JoinWords(words) ==
    IF words = <<>> THEN <<>>
    ELSE IF Len(words) = 1 THEN words[1]
    ELSE words[1] \o <<" ">> \o JoinWords(Tail(words))

RECURSIVE ContextPartsUncut(_, _, _)
\* faulty variant: the snippet that overflows the budget is appended whole
ContextPartsUncut(results, total_tokens, max_tokens) ==
    IF results = <<>> THEN <<>>
    ELSE IF total_tokens + Len(SplitWords(Head(results).content)) <= max_tokens
    THEN <<Head(results).content>>
         \o ContextPartsUncut(Tail(results),
                              total_tokens + Len(SplitWords(Head(results).content)),
                              max_tokens)
    ELSE <<Head(results).content>>

RECURSIVE ContextParts(_, _, _)
\* the loop of lines 86-97 from the given results on, total_tokens so far
ContextParts(results, total_tokens, max_tokens) ==
    IF results = <<>> THEN <<>>
    ELSE IF total_tokens + Len(SplitWords(Head(results).content)) <= max_tokens
    THEN <<Head(results).content>>
         \o ContextParts(Tail(results),
                         total_tokens + Len(SplitWords(Head(results).content)),
                         max_tokens)
    ELSE IF max_tokens - total_tokens > 0
    THEN <<JoinWords(SubSeq(SplitWords(Head(results).content),
                            1, max_tokens - total_tokens))>>
    ELSE <<>>

\* the number of results get_relevant_context asks for
TopN == 3

\* RAGEngine.get_relevant_context(query, max_tokens), when query does not raise
GetRelevantContext(docs, query, max_tokens) ==
    JoinParts(ContextParts(Query(docs, query, TopN), 0, max_tokens))

(***************************************************************************)
(* SpecRag: a RAGEngine whose knowledge base is loaded, extended and       *)
(* queried in any order                                                    *)
(***************************************************************************)
MaxStore == 3

MaxLimit == 3

MaxTokens == 4

\* the texts add_document is called with
SnippetTexts == {
    <<"A","D","G","M"," ","r","u","l","e","s"," ","a","p","p","l","y"," ","h","e","r","e">>,
    <<"f","e","e">> }

QueryPool == {
    <<>>,
    <<"f","e","e"," ","A","D","G","M"," ","f","e","e">>,
    <<"A","d","g","m"," ","l","a","w">> }

Snippet(text) == NewDocument(text, EmptyDict)

\* knowledge-base sources: a missing file, a file that does not parse, a
\* mapping, a flat sequence, a text file, a sequence of values that are no
\* records, a mapping to a value that is no record
KbFilePool == {
    [name |-> "missing.json", readable |-> FALSE],
    [name |-> "broken.json", readable |-> TRUE, is_json |-> TRUE, parses |-> FALSE],
    [name |-> "nested.json", readable |-> TRUE, is_json |-> TRUE, parses |-> TRUE,
     data |-> JObj(<< <<"rules", JArr(<<Snippet(<<"a","d","g","m"," ","l","a","w">>)>>)>>,
                      <<"fees", Snippet(<<"f","e","e">>)>> >>)],
    [name |-> "flat.json", readable |-> TRUE, is_json |-> TRUE, parses |-> TRUE,
     data |-> JArr(<<JObj(<< <<"title", JStr(<<"f","e","e">>)>> >>),
                     JObj(<< <<"content", JNum(7)>> >>)>>)],
    [name |-> "notes.txt", readable |-> TRUE, is_json |-> FALSE,
     text |-> <<"a","d","g","m"," ","l","a","w">>],
    [name |-> "numbers.json", readable |-> TRUE, is_json |-> TRUE, parses |-> TRUE,
     data |-> JArr(<<JNum(1), JStr(<<"f","e","e">>)>>)],
    [name |-> "version.json", readable |-> TRUE, is_json |-> TRUE, parses |-> TRUE,
     data |-> JObj(<< <<"version", JNum(2)>> >>)] }

InitRag ==
    /\ pc = "ready"
    /\ kb = <<>>
    /\ rag_out = [op |-> "init"]
    /\ IdleClassify /\ IdleSections /\ IdleReport /\ IdleBatch

RagIdle ==
    UNCHANGED <<pc, filename, content, doc_type, sections, documents,
                checklist, report, files, processed_docs>>

\* load_knowledge_base(file.name)
Load ==
    \E file \in KbFilePool :
        /\ Len(LoadKnowledgeBase(kb, file)) <= MaxStore
        /\ kb' = LoadKnowledgeBase(kb, file)
        /\ rag_out' = [op |-> "load", source |-> file, raised |-> FALSE]
        /\ RagIdle

\* add_document(text)
AddDocument ==
    \E text \in SnippetTexts :
        /\ Len(kb) < MaxStore
        /\ kb' = Append(kb, NewDocument(text, EmptyDict))
        /\ rag_out' = [op |-> "add", index |-> Len(kb)]
        /\ RagIdle

\* query(q, n)
DoQuery ==
    \E q \in QueryPool, n \in 0..MaxLimit :
        /\ rag_out' = IF QueryRaises(kb)
                      THEN [op |-> "query", raised |-> TRUE, query |-> q,
                            n_results |-> n]
                      ELSE [op |-> "query", raised |-> FALSE, query |-> q,
                            n_results |-> n, results |-> Query(kb, q, n)]
        /\ UNCHANGED kb
        /\ RagIdle

\* get_relevant_context(q, max_tokens); an exception of query propagates
DoContext ==
    \E q \in QueryPool, n \in 0..MaxTokens :
        /\ rag_out' = IF QueryRaises(kb)
                      THEN [op |-> "context", raised |-> TRUE, query |-> q,
                            max_tokens |-> n]
                      ELSE [op |-> "context", raised |-> FALSE, query |-> q,
                            max_tokens |-> n,
                            context |-> GetRelevantContext(kb, q, n)]
        /\ UNCHANGED kb
        /\ RagIdle

NextRag == Load \/ AddDocument \/ DoQuery \/ DoContext

SpecRag == InitRag /\ [][NextRag]_vars

(***************************************************************************)
(* Claims on the RAGEngine (SpecRag)                                       *)
(***************************************************************************)
\* the number of words of the query that occur in store document i
Hits(query, i) ==
    IF IsStr(GetJ(kb[i], "content", JStr(<<>>)))
    THEN Cardinality(
            {w \in 1..Len(SplitWords(Lower(query))) :
                IsSubstring(SplitWords(Lower(query))[w],
                            Lower(GetJ(kb[i], "content", JStr(<<>>)).v))})
    ELSE 0

\* C6: query returns at most n_results results, only snippets with a score
\* greater than 0 (none for an empty query), by descending score, results of
\* equal score in the order their snippets were inserted into the store.
C6_QueryRanked ==
    (rag_out.op = "query" /\ ~rag_out.raised) =>
        LET hits == [i \in 1..Len(kb) |-> Hits(rag_out.query, i)]
            S    == {i \in 1..Len(kb) : hits[i] > 0}
            rank == [i \in S |->
                        Cardinality({j \in S : \/ hits[j] > hits[i]
                                               \/ hits[j] = hits[i] /\ j <= i})]
            res  == rag_out.results
        IN  /\ Len(res) <= rag_out.n_results
            /\ Len(res) = Min({rag_out.n_results, Cardinality(S)})
            /\ \A n \in 1..Len(res) : res[n].score[1] > 0
            /\ \A n \in 1..(Len(res) - 1) :
                  res[n].score[1] * res[n + 1].score[2]
                      >= res[n + 1].score[1] * res[n].score[2]
            /\ \A i \in S :
                  rank[i] <= Len(res) =>
                      res[rank[i]].content = GetJ(kb[i], "content", JStr(<<>>)).v
            /\ SplitWords(rag_out.query) = <<>> => res = <<>>

\* C6 witness: three results, the first inserted after the other two and
\* scoring higher, the other two different snippets of equal score
C6_Witness ==
    /\ rag_out.op = "query"
    /\ ~rag_out.raised
    /\ Len(rag_out.results) = 3
    /\ rag_out.results[1].score[1] > rag_out.results[2].score[1]
    /\ rag_out.results[2].score = rag_out.results[3].score
    /\ rag_out.results[2].content # rag_out.results[3].content
    /\ \E i, j \in 1..Len(kb) :
          i < j /\ Hits(rag_out.query, j) > Hits(rag_out.query, i)
                /\ Hits(rag_out.query, i) > 0

RECURSIVE WordsUpTo(_, _)
\* the words of the first n results, in order
WordsUpTo(results, n) ==
    IF n = 0 THEN <<>>
    ELSE WordsUpTo(results, n - 1) \o SplitWords(results[n].content)

\* the number of leading results that fit the budget as a whole
WholeSnippets(results, max_tokens) ==
    Max({n \in 0..Len(results) : Len(WordsUpTo(results, n)) <= max_tokens})

\* C7: the number of whitespace-separated words of the context never exceeds
\* max_tokens; the context holds the whole snippets of the top-3 results, in
\* rank order, that fit the budget, then the first snippet that overflows
\* cut to exactly the remaining budget, and nothing after it.
C7_ContextWithinBudget ==
    (rag_out.op = "context" /\ ~rag_out.raised) =>
        LET top   == Query(kb, rag_out.query, 3)
            k     == WholeSnippets(top, rag_out.max_tokens)
            whole == WordsUpTo(top, k)
            cut   == IF k < Len(top)
                     THEN SubSeq(SplitWords(top[k + 1].content), 1,
                                 rag_out.max_tokens - Len(whole))
                     ELSE <<>>
        IN  /\ Len(SplitWords(rag_out.context)) <= rag_out.max_tokens
            /\ SplitWords(rag_out.context) = whole \o cut

\* C7 witness: a first snippet fits, the second is cut to a non-empty rest of
\* the budget, and a third result is left out
C7_Witness ==
    /\ rag_out.op = "context"
    /\ ~rag_out.raised
    /\ LET top == Query(kb, rag_out.query, 3)
           k   == WholeSnippets(top, rag_out.max_tokens)
       IN  /\ Len(top) = 3
           /\ k = 1
           /\ Len(WordsUpTo(top, 1)) < rag_out.max_tokens
           /\ Len(SplitWords(rag_out.context)) = rag_out.max_tokens

\* the values a source adds to the store when it parses
LoadedValues(file) ==
    IF IsDict(file.data) THEN LoadItems(<<>>, file.data.items)
    ELSE IF IsList(file.data) THEN file.data.a
    ELSE <<file.data>>

\* an unreadable or unparseable source, or structured input with an element
\* that is no record
Malformed(file) ==
    \/ ~file.readable
    \/ file.is_json /\ ~file.parses
    \/ /\ file.is_json
       /\ \E i \in 1..Len(LoadedValues(file)) : ~IsDict(LoadedValues(file)[i])

\* C8: no knowledge-base input makes load_knowledge_base or a later query
\* raise, and a malformed input leaves the store empty.
C8_MalformedInputNeverRaises ==
    /\ rag_out.op = "load" =>
          /\ ~rag_out.raised
          /\ Malformed(rag_out.source) => kb = <<>>
    /\ rag_out.op \in {"query", "context"} => ~rag_out.raised

====
